---- MODULE Spec2Model ----
(***************************************************************************)
(* Model of the status-reconciliation and worker-coordination core of the  *)
(* GitHub migration dashboard: the in-memory state store (state.ts), the   *)
(* Status, Migration and Progress workers, the retry endpoint and the      *)
(* debounced, mutex-serialised persistence of the state document.          *)
(*                                                                         *)
(* Time is the wall clock in milliseconds.  An absent (undefined) number   *)
(* is None, an absent string is NoStr.  Code that runs between two awaits  *)
(* is one step.                                                            *)
(*                                                                         *)
(* Spec      the workers, discovery and the retry endpoint interleaved at  *)
(*           one instant of the clock;                                     *)
(* SpecTimed the retry endpoint and the Progress Worker while the clock    *)
(*           advances;                                                     *)
(* SpecStore the state document and its file, the write taken step by      *)
(*           step, with write failures, shutdown, a kill of the process    *)
(*           and its restart from the file;                                *)
(* SpecDebounce the debounce timer of saveState on a clock of half         *)
(*           coalescing windows;                                           *)
(* SpecCheck the Status Worker and the retry endpoint;                     *)
(* SpecPoll  the Progress Worker and the retry endpoint, with every phase  *)
(*           the tool reports.                                             *)
(***************************************************************************)
EXTENDS Integers, Sequences, FiniteSets, TLC

VARIABLES
    now,            \* wall clock, ms
    clockSteps,     \* how many times the clock has advanced (bounded)
    keys,           \* Object.keys(currentState.repos): insertion order
    repos,          \* currentState.repos: name -> RepoState
    discovered,     \* discoverRepositoriesAsync has run
    invocations,    \* number of `gh gei migrate-repo` invocations started
    mwRunning,      \* migrationWorkerRunning
    mw,             \* the Migration Worker's tick loop
    pwRunning,      \* progressWorkerRunning
    pw,             \* the Progress Worker's tick loop
    pwRef,          \* the RepoState references held by the Progress Worker
    sw,             \* the Status Worker's check
    retry,          \* in-flight POST /api/repos/:repo/retry requests
    retryCalls,     \* the remote calls the latest retry request has started
    mwOther,        \* a second tick loop of the Migration Worker
    migrationWorkerInterval, \* the loop whose pending timer the handle holds
    isDirty,        \* state.ts isDirty
    debounceTimer,  \* state.ts debounceTimer is pending
    pendingResolvers, \* who awaits a saveState() promise
    writeMutex,     \* state of the writeMutex promise chain
    save,           \* the write in progress (doSaveState)
    stateFile,      \* content of data/migrations-state.json
    tempFile,       \* content of data/migrations-state.json.tmp
    crashed,        \* the process has been killed
    notified,       \* number of onUpdate() calls made by the last step
    timerDue,       \* when the pending debounce timer is due (None: no timer)
    exited,         \* the process has ended (process.exit, fatal rejection)
    statusWorkerInterval, \* the setInterval of the Status Worker is set
    settled         \* the promises the last step resolved and rejected

vars == << now, clockSteps, keys, repos, discovered, invocations,
           mwRunning, mw, pwRunning, pw, pwRef, sw, retry,
           retryCalls,
           mwOther, migrationWorkerInterval, isDirty, debounceTimer, pendingResolvers, writeMutex, save,
           stateFile, tempFile, crashed, notified, timerDue, exited,
           statusWorkerInterval, settled >>

workerVars == << discovered, invocations, mwRunning, mw,
                 pwRunning, pw, pwRef, sw, retry, retryCalls, mwOther,
                 migrationWorkerInterval >>

storeVars == << isDirty, debounceTimer, pendingResolvers, writeMutex, save,
                stateFile, tempFile, crashed, timerDue, exited,
                statusWorkerInterval >>

----------------------------------------------------------------------------
(* Bounds of the model *)

MaxClockSteps == 2
MaxInvocations == 2
\* Number of half coalescing windows the debounce clock goes through.
MaxHalfWindows == 3

(* Program constants *)

MAX_CONCURRENT_MIGRATIONS == 10
GRACE_MS == 60000
STATUS_MIN_AGE_MINUTES == 5
STATUS_BATCH_SIZE == 5
DEBOUNCE_MS == 10000

None == -1
NoStr == "none"

\* The clock's increments, taken in turns: half a second more than the grace
\* period, then the grace period exactly.
ClockStep(k) == IF k % 2 = 0 THEN 60500 ELSE 60000

\* Repositories of the source organisation found by discovery.
Names == {"a"}
\* Repositories already in the loaded state file, mid-migration.
Background == {"x1", "x2", "x3", "x4", "x5", "x6", "x7", "x8", "x9", "x10"}
AllNames == Names \cup Background
\* Records of a state file whose migrations were queued by an earlier run.
PollNames == {"p1", "p2", "p3"}

\* Order in which fetchRepositories returns the repositories (orderBy NAME ASC).
FetchOrder == << "a" >>
\* Key order of the loaded state file: one slot below the ceiling, or at it.
LoadedOrder == << "x1", "x2", "x3", "x4", "x5", "x6", "x7", "x8", "x9", "x10" >>
LoadedOrders == {SubSeq(LoadedOrder, 1, Len(LoadedOrder) - 1), LoadedOrder}

Statuses == {"unknown", "unsynced", "needs_migration", "queued", "syncing",
             "exporting", "exported", "importing", "imported", "synced",
             "failed", "deleted"}

\* Error texts the migration invocation can produce on stderr ("" is empty).
Stderrs == {"", "organization not found"}
NoIdMessage == "Could not extract migration ID from output"
ThrownText == "Error: spawn gh ENOENT"
LostNoIdMessage == "Migration status lost - may have completed or failed"
LostMessage == "Migration status not found - may have completed or failed"
FailureReason == "import failed"

\* Phase strings the tool reports for a migration.
Phases == {"QUEUED", "importing", "imported", "failed", "IN_PROGRESS"}
\* Every phase mapGitHubStatus knows, and one it does not know.
AllPhases == Phases \cup {"pending", "PENDING", "exporting", "exported"}

----------------------------------------------------------------------------
(* RepoState and the store's synchronous operations (state.ts) *)

Fields == {"name", "status", "migrationId", "queuedAt", "startedAt", "endedAt",
           "elapsedSeconds", "lastUpdate", "lastPolledAt", "lastChecked",
           "errorMessage"}

\* A record of the loaded state file: queued in an earlier run and last polled
\* while the tool was importing it.  No operation of the model addresses
\* these records (they are not fetched again, not unsynced and not polled),
\* so the mapping keeps them apart from the records that change.
LoadedRepo ==
    [name |-> NoStr, status |-> "importing", migrationId |-> 0, queuedAt |-> 0,
     startedAt |-> 0, endedAt |-> None, elapsedSeconds |-> None,
     lastUpdate |-> 0, lastPolledAt |-> 0, lastChecked |-> 0,
     errorMessage |-> NoStr]

\* currentState.repos[n]
RepoAt(rs, n) ==
    IF n \in DOMAIN rs THEN rs[n] ELSE [LoadedRepo EXCEPT !.name = n]

\* The defaults upsertRepo gives a new record, before its name is set.
NewRepo ==
    [name |-> NoStr, status |-> "unknown", migrationId |-> None, queuedAt |-> None,
     startedAt |-> None, endedAt |-> None, elapsedSeconds |-> None,
     lastUpdate |-> None, lastPolledAt |-> None, lastChecked |-> None,
     errorMessage |-> NoStr]

\* A loaded mapping: each record carries the key it is stored under.
Named(rs) == [n \in DOMAIN rs |-> [rs[n] EXCEPT !.name = n]]

Has(n) == \E i \in 1..Len(keys) : keys[i] = n

SeqHas(s, n) == \E i \in 1..Len(s) : s[i] = n

\* { ...old, ...updates }
Merge(old, updates) ==
    [f \in Fields |-> IF f \in DOMAIN updates THEN updates[f] ELSE old[f]]

\* Variant: the difference kept in milliseconds.
RoundSecondsKeepsMs(ms) == ms

\* Math.round(ms / 1000) for ms >= 0 and for ms < 0 (rounds half up)
RoundSeconds(ms) == (ms + 500) \div 1000

\* upsertRepo on the mapping rs: a new record gets the defaults and the
\* updates (no lastUpdate); an existing one is REPLACED by a new object
\* holding the merged fields and lastUpdate = now.
upsertRepo(rs, ks, n, updates, t) ==
    IF ~SeqHas(ks, n)
    THEN [rs EXCEPT ![n] = Merge([NewRepo EXCEPT !.name = n], updates)]
    ELSE [rs EXCEPT ![n] = [Merge(rs[n], updates) EXCEPT !.lastUpdate = t]]

\* Variant: the mapping is built anew around the upserted record.
upsertKeysAnew(ks, n) == << n >>

upsertKeys(ks, n) == IF SeqHas(ks, n) THEN ks ELSE Append(ks, n)

\* Variant: the timer is stopped again at every terminal status.
StopTimerEveryTime(r, status, t) ==
    IF status \in {"synced", "failed"}
    THEN [r EXCEPT !.endedAt = t,
                   !.elapsedSeconds =
                       IF r.startedAt # None
                       THEN RoundSeconds(t - r.startedAt)
                       ELSE r.elapsedSeconds]
    ELSE r

\* The endedAt / elapsedSeconds rule of setStatus, applied to a record whose
\* status and startedAt are already updated.
StopTimer(r, status, t) ==
    IF status \in {"synced", "failed"} /\ r.endedAt = None
    THEN [r EXCEPT !.endedAt = t,
                   !.elapsedSeconds =
                       IF r.startedAt # None
                       THEN RoundSeconds(t - r.startedAt)
                       ELSE r.elapsedSeconds]
    ELSE r

\* setStatus mutates the record object in place.
setStatusRec(r, status, errorMessage, t) ==
    LET r1 == [r EXCEPT !.status = status, !.lastUpdate = t]
        \* if (errorMessage): undefined and "" are both falsy
        r2 == IF errorMessage # NoStr /\ errorMessage # ""
              THEN [r1 EXCEPT !.errorMessage = errorMessage] ELSE r1
        r3 == IF status = "syncing" /\ r2.startedAt = None
              THEN [r2 EXCEPT !.startedAt = t] ELSE r2
    IN StopTimer(r3, status, t)

setStatus(rs, ks, n, status, errorMessage, t) ==
    IF ~SeqHas(ks, n) THEN rs
    ELSE [rs EXCEPT ![n] = setStatusRec(rs[n], status, errorMessage, t)]

\* Object.values(currentState.repos), as the sequence of names
listAll(ks) == ks

RECURSIVE SelectSeq2(_, _, _)
\* s.filter(n => rs[n].status \in set), keeping the order
SelectSeq2(s, rs, set) ==
    IF s = << >> THEN << >>
    ELSE IF RepoAt(rs, Head(s)).status \in set
         THEN << Head(s) >> \o SelectSeq2(Tail(s), rs, set)
         ELSE SelectSeq2(Tail(s), rs, set)

IncompleteStatuses == {"queued", "syncing"}

\* Variant: every record is taken, whatever its status.
listIncompleteAny(ks, rs) == ks

listIncomplete(ks, rs) == SelectSeq2(ks, rs, IncompleteStatuses)

----------------------------------------------------------------------------
(* Persistence bookkeeping (state.ts saveState / flushPendingSaves) *)

\* The value of an optional property that is not set (undefined).
Undefined(f) ==
    IF f \in {"name", "status", "errorMessage"} THEN NoStr ELSE None

\* Variant: only the properties with a truthy value are written.
StringifyTruthy(r) ==
    {<< f, r[f] >> :
        f \in {g \in Fields : /\ r[g] # Undefined(g)
                              /\ r[g] # (IF g \in {"name", "status", "errorMessage"}
                                           THEN "" ELSE 0)}}

\* JSON.stringify of one record: the properties that are set, each with its
\* value as it is; a property whose value is undefined is left out.
Stringify(r) ==
    {<< f, r[f] >> : f \in {g \in Fields : r[g] # Undefined(g)}}

\* JSON.parse of one record: the properties of the text; reading a property
\* the text does not have gives undefined.
Parse(text) ==
    [f \in Fields |->
        IF \E p \in text : p[1] = f
        THEN (CHOOSE p \in text : p[1] = f)[2]
        ELSE Undefined(f)]

\* The document JSON.stringify(currentState) writes: the records under
\* their names, in the order of the keys.
Document(ks, rs) ==
    [exists |-> TRUE, complete |-> TRUE, keys |-> ks,
     repos |-> [n \in Names |-> IF SeqHas(ks, n) THEN Stringify(rs[n]) ELSE {}]]

\* No such file.
NoFile ==
    [exists |-> FALSE, complete |-> FALSE, keys |-> << >>,
     repos |-> [n \in Names |-> {}]]

\* loadState: currentState after reading file, when current was there
\* before.  A file that is missing, or that JSON.parse rejects, leaves
\* currentState as it was.
loadState(file, current) ==
    IF file.exists /\ file.complete
    THEN [keys |-> file.keys,
          repos |-> [n \in Names |-> IF SeqHas(file.keys, n)
                                     THEN Parse(file.repos[n]) ELSE NewRepo]]
    ELSE current

\* No promise settled.
NoneSettled == [resolved |-> {}, rejected |-> {}]

\* No write in progress.
SaveIdle ==
    [pc |-> "idle", resolvers |-> {}, writers |-> 0, flusher |-> NoStr]

\* saveState(): mark dirty, restart the debounce timer, queue a resolver.
saveState(who) ==
    /\ isDirty' = TRUE
    /\ debounceTimer' = TRUE
    /\ timerDue' = now + DEBOUNCE_MS
    /\ pendingResolvers' = pendingResolvers \cup {who}

----------------------------------------------------------------------------
(* The migration invocation (migrationWorker.ts queueSingleRepo) *)

\* What `gh gei migrate-repo --queue-only` can come back with.
Outcomes ==
    { [kind |-> "ok", text |-> NoStr], [kind |-> "noid", text |-> NoStr],
      [kind |-> "throw", text |-> ThrownText] }
    \cup { [kind |-> "exit", text |-> e] : e \in Stderrs }

\* Variant: the success path leaves startedAt to setStatus.
QueuedFieldsNoStart(id, t) ==
    [migrationId |-> id, status |-> "queued", queuedAt |-> t]

\* The fields queueSingleRepo upserts on success.
QueuedFields(id, t) ==
    [migrationId |-> id, status |-> "queued", queuedAt |-> t, startedAt |-> t]

\* queueSingleRepo after `await runGh(args)` for repository n; id is the
\* identifier extractMigrationId finds in the output of a successful run.
QueueReturn(rs, ks, n, o, id, t) ==
    CASE o.kind = "exit"  -> setStatus(rs, ks, n, "failed", o.text, t)
      [] o.kind = "noid"  -> setStatus(rs, ks, n, "failed", NoIdMessage, t)
      [] o.kind = "throw" -> setStatus(rs, ks, n, "failed", o.text, t)
      [] OTHER            -> upsertRepo(rs, ks, n, QueuedFields(id, t), t)

\* Whether the completion replaces the record object (upsertRepo).
Replaces(o) == o.kind = "ok"

isUnsynced(status) == status \in {"needs_migration", "unsynced"}

RECURSIVE FirstUnsynced(_, _)
\* allRepos.find(repo => isUnsynced(repo.status)), NoStr when there is none
FirstUnsynced(ks, rs) ==
    IF ks = << >> THEN NoStr
    ELSE IF isUnsynced(RepoAt(rs, Head(ks)).status) THEN Head(ks)
         ELSE FirstUnsynced(Tail(ks), rs)

InProgressStatuses == {"queued", "exporting", "exported", "importing"}

\* Variant: only the queued records count against the ceiling.
InProgressQueuedOnly(ks, rs) ==
    Cardinality({i \in 1..Len(ks) : RepoAt(rs, ks[i]).status = "queued"})

\* inProgress.length of runMigrationWorkerTick
InProgressCount(ks, rs) ==
    Cardinality({i \in 1..Len(ks) : RepoAt(rs, ks[i]).status \in InProgressStatuses})

----------------------------------------------------------------------------
(* Migration Worker (server.ts runMigrationWorkerTick, queueNextRepo) *)

MwOff == [pc |-> "off", slots |-> 0, i |-> 0, name |-> NoStr, id |-> None]
MwScheduled == [MwOff EXCEPT !.pc = "scheduled"]

\* The for loop of the tick from iteration i on, up to its next await:
\* queueNextRepo finds the first unsynced record and invokes the tool for it
\* (the invocation gets serial number id), or the loop ends and the next tick
\* is scheduled with setTimeout.
MwLoop(rs, ks, slots, i, id) ==
    IF i < slots /\ FirstUnsynced(listAll(ks), rs) # NoStr
    THEN [pc |-> "awaiting", slots |-> slots, i |-> i,
          name |-> FirstUnsynced(listAll(ks), rs), id |-> id]
    ELSE MwScheduled

\* runMigrationWorkerTick up to its first await
MwTickBody(rs, ks, id) ==
    LET slotsAvailable == MAX_CONCURRENT_MIGRATIONS - InProgressCount(ks, rs)
    IN IF slotsAvailable > 0 THEN MwLoop(rs, ks, slotsAvailable, 0, id)
       ELSE MwScheduled

\* migrationWorkerInterval once loop has left its timer callback or its
\* await as next: a setTimeout puts the loop's new timer in the handle; the
\* handle of a timer that has fired clears nothing and counts as unset.
Handle(loop, next) ==
    IF next.pc = "scheduled" THEN loop
    ELSE IF migrationWorkerInterval = loop THEN NoStr
    ELSE migrationWorkerInterval

\* The loop state next, and the invocation counter with it.
MwGoes(next) ==
    /\ mw' = next
    /\ migrationWorkerInterval' = Handle("mw", next)
    /\ mwOther' = mwOther
    /\ IF next.pc = "awaiting"
       THEN invocations < MaxInvocations /\ invocations' = invocations + 1
       ELSE invocations' = invocations

\* The same for the second loop.
MwOtherGoes(next) ==
    /\ mwOther' = next
    /\ migrationWorkerInterval' = Handle("other", next)
    /\ mw' = mw
    /\ IF next.pc = "awaiting"
       THEN invocations < MaxInvocations /\ invocations' = invocations + 1
       ELSE invocations' = invocations

----------------------------------------------------------------------------
(* Progress Worker (progressWorker.ts pollMigrationStatuses, pollSingleRepo) *)

LiveRef == [live |-> TRUE, obj |-> NewRepo]
AllLive == [n \in Names \cup PollNames |-> LiveRef]

\* The object a held reference points to: the record now in the mapping, or
\* the object upsertRepo has replaced since the reference was taken.
Deref(refs, rs, n) == IF refs[n].live THEN RepoAt(rs, n) ELSE refs[n].obj

\* The records of the batch the Progress Worker has yet to finish with.
PwHeld == IF pw.pc = "awaiting"
          THEN {pw.batch[j] : j \in pw.i..Len(pw.batch)} ELSE {}

\* upsertRepo has replaced the object of existing record n: a reference the
\* Progress Worker holds to it now points to the old object.
Detach(refs, n) ==
    IF n \in PwHeld /\ refs[n].live /\ Has(n)
    THEN [refs EXCEPT ![n] = [live |-> FALSE, obj |-> repos[n]]]
    ELSE refs

Lower(p) ==
    CASE p = "QUEUED" -> "queued"
      [] p = "PENDING" -> "pending"
      [] p = "IN_PROGRESS" -> "in_progress"
      [] OTHER -> p

mapGitHubStatus(githubState) ==
    LET stateValue == Lower(githubState)
    IN CASE stateValue \in {"pending", "queued"} -> "queued"
         [] stateValue = "exporting" -> "exporting"
         [] stateValue = "exported" -> "exported"
         [] stateValue = "importing" -> "importing"
         [] stateValue = "imported" -> "imported"
         [] stateValue = "failed" -> "failed"
         [] OTHER -> "unknown"

\* status.failureReason as the tool reports it
FailureReasonOf(phase) == IF Lower(phase) = "failed" THEN FailureReason ELSE NoStr

\* Variant: the elapsed time taken in seconds, the limit in milliseconds.
OverGraceInSeconds(obj, t) ==
    obj.startedAt # None /\ (t - obj.startedAt) \div 1000 > GRACE_MS

OverGrace(obj, t) == obj.startedAt # None /\ t - obj.startedAt > GRACE_MS

\* pollSingleRepo for a record (object obj) that has no migrationId
PollNoIdLost(obj, t) == OverGrace(obj, t) /\ obj.endedAt = None

PollNoId(rs, ks, obj, n, t) ==
    IF PollNoIdLost(obj, t)
    THEN setStatus(rs, ks, n, "unknown", LostNoIdMessage, t) ELSE rs

RECURSIVE PollFrom(_, _, _, _, _, _)
\* The loop of pollMigrationStatuses from batch index i up to its next real
\* await (getMigrationStatus) or to the end of the batch.
PollFrom(rs, ks, refs, batch, i, t) ==
    IF i > Len(batch)
    THEN [repos |-> rs, i |-> i, awaiting |-> FALSE, notified |-> 0]
    ELSE LET n == batch[i]
             obj == Deref(refs, rs, n)
         IN IF obj.migrationId # None
            THEN [repos |-> rs, i |-> i, awaiting |-> TRUE, notified |-> 0]
            ELSE LET rest == PollFrom(PollNoId(rs, ks, obj, n, t), ks, refs,
                                      batch, i + 1, t)
                 IN [rest EXCEPT !.notified =
                        @ + (IF PollNoIdLost(obj, t) THEN 1 ELSE 0)]

\* pollSingleRepo after `await getMigrationStatus`; res is NoStr for null
\* (not found, or the call failed) and the reported phase otherwise.  obj is
\* the object the worker's reference points to, live whether it still is the
\* record in the mapping.
PollChanges(obj, res, t) ==
    IF res = NoStr THEN OverGrace(obj, t)
    ELSE mapGitHubStatus(res) # obj.status

PollReturn(rs, ks, obj, live, n, res, t) ==
    IF res = NoStr
    THEN IF OverGrace(obj, t)
         THEN setStatus(rs, ks, n, "unknown", LostMessage, t) ELSE rs
    ELSE LET stamped == IF live
                        THEN [rs EXCEPT ![n].lastPolledAt = t,
                                        ![n].lastChecked = t]
                        ELSE rs
         IN IF mapGitHubStatus(res) # obj.status
            THEN setStatus(stamped, ks, n, mapGitHubStatus(res),
                           FailureReasonOf(res), t)
            ELSE stamped

PwOff == [pc |-> "off", batch |-> << >>, i |-> 0, id |-> None]
PwScheduled == [PwOff EXCEPT !.pc = "scheduled"]
PwSaving == [PwOff EXCEPT !.pc = "saving"]

\* The worker after the synchronous run r of the loop over batch.
PwAfter(r, refs, batch) ==
    IF r.awaiting
    THEN [pc |-> "awaiting", batch |-> batch, i |-> r.i,
          id |-> Deref(refs, r.repos, batch[r.i]).migrationId]
    ELSE PwSaving

\* References to records the loop is done with are dropped.
PwKeep(refs, next) ==
    [n \in DOMAIN refs |->
        IF next.pc = "awaiting"
           /\ \E j \in next.i..Len(next.batch) : next.batch[j] = n
        THEN refs[n] ELSE LiveRef]

----------------------------------------------------------------------------
(* Status Worker (statusWorker.ts checkOldestRepos, github.ts needsMigration) *)

\* Values of pushed_at the hosts can report (None: unavailable).
PushTimes == {None, 1000, 2000}

\* Variant: the records that qualify are taken in the order of the keys.
SortByInsertion(s, rs) == s

\* Variant: the timestamps are compared whether or not the target exists.
needsMigrationByTimeOnly(existsInTarget, sourceLastUpdated, targetLastUpdated) ==
    IF sourceLastUpdated = None \/ targetLastUpdated = None THEN TRUE
    ELSE sourceLastUpdated > targetLastUpdated

\* Variant: a source pushed at the same time as the target counts as newer.
needsMigrationNotOlder(existsInTarget, sourceLastUpdated, targetLastUpdated) ==
    IF ~existsInTarget THEN TRUE
    ELSE IF sourceLastUpdated = None \/ targetLastUpdated = None THEN TRUE
    ELSE sourceLastUpdated >= targetLastUpdated

\* needsMigration(...).needs
needsMigration(existsInTarget, sourceLastUpdated, targetLastUpdated) ==
    IF ~existsInTarget THEN TRUE
    ELSE IF sourceLastUpdated = None \/ targetLastUpdated = None THEN TRUE
    ELSE sourceLastUpdated > targetLastUpdated

MinAgeMs == STATUS_MIN_AGE_MINUTES * 60 * 1000

\* The filter of otherReposNeedingCheck
NeedsCheck(r, t) ==
    /\ r.status # "unknown"
    /\ r.status \notin {"queued", "exporting", "exported", "importing"}
    /\ (r.lastChecked = None \/ t - r.lastChecked > MinAgeMs)

\* aTime / bTime of the sort
CheckTime(r) == IF r.lastChecked # None THEN r.lastChecked ELSE 0

RECURSIVE FilterCheck(_, _, _)
FilterCheck(s, rs, t) ==
    IF s = << >> THEN << >>
    ELSE IF NeedsCheck(RepoAt(rs, Head(s)), t)
         THEN << Head(s) >> \o FilterCheck(Tail(s), rs, t)
         ELSE FilterCheck(Tail(s), rs, t)

RECURSIVE InsertByTime(_, _, _)
\* n inserted into the sorted s after every element that is not later (stable)
InsertByTime(s, n, rs) ==
    IF s = << >> THEN << n >>
    ELSE IF CheckTime(RepoAt(rs, Head(s))) <= CheckTime(RepoAt(rs, n))
         THEN << Head(s) >> \o InsertByTime(Tail(s), n, rs)
         ELSE << n >> \o s

RECURSIVE SortByTime(_, _)
\* Array.prototype.sort (stable) by oldest lastChecked first
SortByTime(s, rs) ==
    IF s = << >> THEN << >>
    ELSE InsertByTime(SortByTime(SubSeq(s, 1, Len(s) - 1), rs), s[Len(s)], rs)

Slice(s, k) == SubSeq(s, 1, IF Len(s) < k THEN Len(s) ELSE k)

\* reposNeedingCheck of checkOldestRepos
CheckBatch(ks, rs, t) ==
    LET unknownRepos == SelectSeq2(listAll(ks), rs, {"unknown"})
        otherReposNeedingCheck ==
            Slice(SortByTime(FilterCheck(listAll(ks), rs, t), rs),
                  STATUS_BATCH_SIZE)
    IN IF unknownRepos # << >> THEN unknownRepos ELSE otherReposNeedingCheck

\* The fields recheckRepoStatus upserts.
CheckedFields(needs, t) ==
    [status |-> IF needs THEN "needs_migration" ELSE "synced",
     lastChecked |-> t]

SwIdle == [pc |-> "idle", batch |-> << >>, i |-> 0]
SwSaving == [SwIdle EXCEPT !.pc = "saving"]

----------------------------------------------------------------------------
(* Initial state: main() has loaded the state file and started the servers, *)
(* the Status Worker and the Progress Worker; discovery is in flight.       *)

LoadedRepos == [n \in Names |-> NewRepo]

NoRetry == [n \in Names |-> None]

Init ==
    /\ now = 0
    /\ clockSteps = 0
    /\ keys \in LoadedOrders
    /\ repos = LoadedRepos
    /\ discovered = FALSE
    /\ invocations = 0
    /\ mwRunning = FALSE
    /\ mw = MwOff
    /\ pwRunning = TRUE
    /\ pw = PwScheduled
    /\ pwRef = AllLive
    /\ sw = SwIdle
    /\ retry = NoRetry
    /\ retryCalls = << >>
    /\ mwOther = MwOff
    /\ migrationWorkerInterval = NoStr
    /\ isDirty = TRUE
    /\ debounceTimer = TRUE
    /\ pendingResolvers = {"init"}
    /\ writeMutex = "resolved"
    /\ save = SaveIdle
    /\ stateFile = Document(keys, repos)
    /\ tempFile = NoFile
    /\ crashed = FALSE
    /\ notified = 0
    /\ timerDue = DEBOUNCE_MS
    /\ exited = FALSE
    /\ statusWorkerInterval = TRUE
    /\ settled = NoneSettled

\* A state file with seven records for the Status Worker to choose from, as
\* an earlier run of the dashboard left them, loaded MinAgeMs + 100 s after
\* the earliest check: checked at 0 or at 50 s (older than the minimum age),
\* checked at 200 s (too recent), or never checked (retried or failed before
\* any check).
BatchOrder == << "b1", "b2", "b3", "b4", "b5", "b6", "b7" >>

BatchNow == MinAgeMs + 100000

\* A record of the loaded file with this status and time of last check.
BatchRepo(status, lastChecked) ==
    [NewRepo EXCEPT !.status = status, !.lastChecked = lastChecked,
                    !.lastUpdate = IF lastChecked = None THEN 0
                                   ELSE lastChecked]

BatchRepos ==
    [b1 : {BatchRepo("synced", 0), BatchRepo("unknown", None),
           BatchRepo("needs_migration", 50000)},
     b2 : {BatchRepo("synced", 50000), BatchRepo("unsynced", None)},
     b3 : {BatchRepo("synced", 0), BatchRepo("queued", 0),
           BatchRepo("synced", 200000)},
     b4 : {BatchRepo("failed", 50000), BatchRepo("failed", None)},
     b5 : {BatchRepo("needs_migration", 0), BatchRepo("unknown", None),
           BatchRepo("importing", 50000)},
     b6 : {BatchRepo("synced", 0), BatchRepo("synced", 50000)},
     b7 : {BatchRepo("needs_migration", 50000), BatchRepo("synced", 0),
           BatchRepo("synced", 200000)}]

InitBatch ==
    /\ now = BatchNow
    /\ clockSteps = 0
    /\ keys = BatchOrder
    /\ repos \in {Named(rs) : rs \in BatchRepos}
    /\ discovered = TRUE
    /\ invocations = 0
    /\ mwRunning = FALSE
    /\ mw = MwOff
    /\ pwRunning = TRUE
    /\ pw = PwScheduled
    /\ pwRef = AllLive
    /\ sw = SwIdle
    /\ retry = NoRetry
    /\ retryCalls = << >>
    /\ mwOther = MwOff
    /\ migrationWorkerInterval = NoStr
    /\ isDirty = TRUE
    /\ debounceTimer = TRUE
    /\ pendingResolvers = {"init"}
    /\ writeMutex = "resolved"
    /\ save = SaveIdle
    /\ stateFile = Document(keys, repos)
    /\ tempFile = NoFile
    /\ crashed = FALSE
    /\ notified = 0
    /\ timerDue = now + DEBOUNCE_MS
    /\ exited = FALSE
    /\ statusWorkerInterval = TRUE
    /\ settled = NoneSettled

\* A state file an earlier run left with migrations under way: each of the
\* three records is queued with the id of its invocation, or is in a status
\* the Progress Worker does not poll.
PollOrder == << "p1", "p2", "p3" >>

\* A record of that file, queued at time 0 by invocation id.
QueuedRepo(id) ==
    [NewRepo EXCEPT !.status = "queued", !.migrationId = id, !.queuedAt = 0,
                    !.startedAt = 0, !.lastUpdate = 0]

\* A record of that file in a status reached without a migration under way.
SettledRepo(status) ==
    [NewRepo EXCEPT !.status = status, !.lastUpdate = 0,
                    !.lastChecked = IF status = "unknown" THEN None ELSE 0]

PollRepos ==
    [p1 : {QueuedRepo(1), SettledRepo("synced")},
     p2 : {QueuedRepo(2), SettledRepo("needs_migration"),
           SettledRepo("unknown")},
     p3 : {QueuedRepo(3), SettledRepo("unsynced")}]

InitPolls ==
    /\ now = 0
    /\ clockSteps = 0
    /\ keys = PollOrder
    /\ repos \in {Named(rs) : rs \in PollRepos}
    /\ discovered = TRUE
    /\ invocations = 0
    /\ mwRunning = FALSE
    /\ mw = MwOff
    /\ pwRunning = TRUE
    /\ pw = PwScheduled
    /\ pwRef = AllLive
    /\ sw = SwIdle
    /\ retry = NoRetry
    /\ retryCalls = << >>
    /\ mwOther = MwOff
    /\ migrationWorkerInterval = NoStr
    /\ isDirty = TRUE
    /\ debounceTimer = TRUE
    /\ pendingResolvers = {"init"}
    /\ writeMutex = "resolved"
    /\ save = SaveIdle
    /\ stateFile = Document(keys, repos)
    /\ tempFile = NoFile
    /\ crashed = FALSE
    /\ notified = 0
    /\ timerDue = now + DEBOUNCE_MS
    /\ exited = FALSE
    /\ statusWorkerInterval = TRUE
    /\ settled = NoneSettled

----------------------------------------------------------------------------
(* Actions *)

\* The process is alive and not inside the synchronous doSaveState, so the
\* event loop can run a callback or resume an awaiting function.
\* Variant: handlers run while a write is in progress, as they would if
\* doSaveState awaited its file operations and nothing chained the writes.
EventLoopFreeDuringWrite == ~crashed /\ ~exited

EventLoopFree == ~crashed /\ ~exited /\ save = SaveIdle

AdvanceClock ==
    /\ EventLoopFree
    /\ clockSteps < MaxClockSteps
    /\ clockSteps' = clockSteps + 1
    /\ now' = now + ClockStep(clockSteps)
    /\ notified' = 0
    /\ settled' = NoneSettled
    /\ UNCHANGED << keys, repos, workerVars, storeVars >>

RECURSIVE AddFetched(_, _, _)
\* Variant: every fetched repository is upserted, known or not.
AddFetched(rs, ks, fetched) ==
    IF fetched = << >> THEN [repos |-> rs, keys |-> ks]
    ELSE AddFetched(upsertRepo(rs, ks, Head(fetched),
                               [name |-> Head(fetched), status |-> "unknown"],
                               now),
                    upsertKeys(ks, Head(fetched)), Tail(fetched))

RECURSIVE AddMissing(_, _, _)
\* the loop of discoverRepositories over the fetched repositories
AddMissing(rs, ks, fetched) ==
    IF fetched = << >> THEN [repos |-> rs, keys |-> ks]
    ELSE IF SeqHas(ks, Head(fetched))
         THEN AddMissing(rs, ks, Tail(fetched))
         ELSE AddMissing(upsertRepo(rs, ks, Head(fetched),
                                    [name |-> Head(fetched),
                                     status |-> "unknown"], now),
                         upsertKeys(ks, Head(fetched)), Tail(fetched))

\* discoverRepositories after `await fetchRepositories`
Discover ==
    /\ EventLoopFree
    /\ ~discovered
    /\ discovered' = TRUE
    /\ repos' = AddMissing(repos, keys, FetchOrder).repos
    /\ keys' = AddMissing(repos, keys, FetchOrder).keys
    /\ saveState("disc")
    /\ notified' = 0
    /\ settled' = NoneSettled
    /\ UNCHANGED << now, clockSteps, invocations, mwRunning, mw, pwRunning,
                    pw, pwRef, sw, retry, retryCalls,
                    mwOther, migrationWorkerInterval, writeMutex, save, stateFile,
                    tempFile, crashed, exited, statusWorkerInterval >>

\* POST /api/migration-worker/start: only the flag is looked at, so the
\* call starts a tick loop next to one that a stop has left awaiting its
\* invocation (the model follows two loops; a third is not started).
StartMigrationWorker ==
    /\ EventLoopFree
    /\ ~mwRunning
    /\ mwRunning' = TRUE
    /\ IF mw.pc = "off"
       THEN MwGoes(MwTickBody(repos, keys, invocations + 1))
       ELSE /\ mwOther.pc = "off"
            /\ MwOtherGoes(MwTickBody(repos, keys, invocations + 1))
    /\ notified' = 0
    /\ settled' = NoneSettled
    /\ UNCHANGED << now, clockSteps, keys, repos, discovered, pwRunning, pw,
                    pwRef, sw, retry, retryCalls, storeVars >>

\* The setTimeout of the Migration Worker fires: runMigrationWorkerTick
MwTick ==
    /\ EventLoopFree
    /\ mw.pc = "scheduled"
    /\ IF mwRunning
       THEN MwGoes(MwTickBody(repos, keys, invocations + 1))
       ELSE MwGoes(MwOff)
    /\ notified' = 0
    /\ settled' = NoneSettled
    /\ UNCHANGED << now, clockSteps, keys, repos, discovered, mwRunning,
                    pwRunning, pw, pwRef, sw, retry, retryCalls, storeVars >>

\* The setTimeout of the second loop fires: runMigrationWorkerTick
MwOtherTick ==
    /\ EventLoopFree
    /\ mwOther.pc = "scheduled"
    /\ IF mwRunning
       THEN MwOtherGoes(MwTickBody(repos, keys, invocations + 1))
       ELSE MwOtherGoes(MwOff)
    /\ notified' = 0
    /\ settled' = NoneSettled
    /\ UNCHANGED << now, clockSteps, keys, repos, discovered, mwRunning,
                    pwRunning, pw, pwRef, sw, retry, retryCalls, storeVars >>

\* queueSingleRepo resumes in the Migration Worker with outcome o; the loop
\* of the tick goes on to its next await or to the end of the tick.
MwReturn(o) ==
    /\ EventLoopFree
    /\ mw.pc = "awaiting"
    /\ repos' = QueueReturn(repos, keys, mw.name, o, mw.id, now)
    /\ pwRef' = IF Replaces(o) THEN Detach(pwRef, mw.name) ELSE pwRef
    /\ MwGoes(MwLoop(repos', keys, mw.slots, mw.i + 1, invocations + 1))
    /\ notified' = 1
    /\ settled' = NoneSettled
    /\ UNCHANGED << now, clockSteps, keys, discovered, mwRunning, pwRunning,
                    pw, sw, retry, retryCalls, storeVars >>

\* queueSingleRepo resumes in the second loop with outcome o.
MwOtherReturn(o) ==
    /\ EventLoopFree
    /\ mwOther.pc = "awaiting"
    /\ repos' = QueueReturn(repos, keys, mwOther.name, o, mwOther.id, now)
    /\ pwRef' = IF Replaces(o) THEN Detach(pwRef, mwOther.name) ELSE pwRef
    /\ MwOtherGoes(MwLoop(repos', keys, mwOther.slots, mwOther.i + 1,
                          invocations + 1))
    /\ notified' = 1
    /\ settled' = NoneSettled
    /\ UNCHANGED << now, clockSteps, keys, discovered, mwRunning, pwRunning,
                    pw, sw, retry, retryCalls, storeVars >>

\* POST /api/repos/:repo/retry up to `await runGh` in queueSingleRepo
RetryStart(n) ==
    /\ EventLoopFree
    /\ Has(n)
    /\ retry[n] = None
    /\ invocations < MaxInvocations
    /\ invocations' = invocations + 1
    /\ retry' = [retry EXCEPT ![n] = invocations + 1]
    /\ retryCalls' = << "migrate-repo" >>
    /\ UNCHANGED << mwOther, migrationWorkerInterval >>
    /\ repos' = setStatus(repos, keys, n, "unsynced", NoStr, now)
    /\ notified' = 1
    /\ settled' = NoneSettled
    /\ UNCHANGED << now, clockSteps, keys, discovered, mwRunning, mw,
                    pwRunning, pw, pwRef, sw, storeVars >>

\* The retry request resumes after queueSingleRepo's `await runGh`
RetryReturn(n, o) ==
    /\ EventLoopFree
    /\ retry[n] # None
    /\ retry' = [retry EXCEPT ![n] = None]
    /\ repos' = QueueReturn(repos, keys, n, o, retry[n], now)
    /\ pwRef' = IF Replaces(o) THEN Detach(pwRef, n) ELSE pwRef
    /\ notified' = 1
    /\ settled' = NoneSettled
    /\ UNCHANGED << now, clockSteps, keys, discovered, invocations, mwRunning,
                    mw, pwRunning, pw, sw, retryCalls,
                    mwOther, migrationWorkerInterval, storeVars >>

\* The Progress Worker goes on after the synchronous run r over batch.
PwGoes(r, refs, batch) ==
    /\ repos' = r.repos
    /\ pw' = PwAfter(r, refs, batch)
    /\ pwRef' = PwKeep(refs, pw')
    /\ IF r.awaiting
       THEN UNCHANGED << isDirty, debounceTimer, pendingResolvers, timerDue >>
       ELSE saveState("pw")

\* The setTimeout of the Progress Worker fires: runProgressWorkerTick
PwTick ==
    /\ EventLoopFree
    /\ pw.pc = "scheduled"
    /\ IF ~pwRunning
       THEN /\ pw' = PwOff
            /\ notified' = 0
            /\ settled' = NoneSettled
            /\ UNCHANGED << repos, pwRef, isDirty, debounceTimer,
                            pendingResolvers, timerDue >>
       ELSE LET batch == listIncomplete(keys, repos)
                r == PollFrom(repos, keys, AllLive, batch, 1, now)
            IN IF batch = << >>
               THEN /\ notified' = 0
                    /\ settled' = NoneSettled
                    /\ UNCHANGED << repos, pw, pwRef, isDirty, debounceTimer,
                                    pendingResolvers, timerDue >>
               ELSE /\ PwGoes(r, AllLive, batch)
                    /\ notified' = r.notified
                    /\ settled' = NoneSettled
    /\ UNCHANGED << now, clockSteps, keys, discovered, invocations, mwRunning,
                    mw, pwRunning, sw, retry, retryCalls,
                    mwOther, migrationWorkerInterval, writeMutex, save, stateFile,
                    tempFile, crashed, exited, statusWorkerInterval >>

\* pollSingleRepo resumes after `await getMigrationStatus` with res (NoStr:
\* null); the loop goes on to its next await or to saveState().
PwReturn(res) ==
    /\ EventLoopFree
    /\ pw.pc = "awaiting"
    /\ LET n == pw.batch[pw.i]
           obj == Deref(pwRef, repos, n)
           rs == PollReturn(repos, keys, obj, pwRef[n].live, n, res, now)
           r == PollFrom(rs, keys, pwRef, pw.batch, pw.i + 1, now)
       IN /\ PwGoes(r, pwRef, pw.batch)
          /\ notified' = r.notified + (IF PollChanges(obj, res, now) THEN 1 ELSE 0)
          /\ settled' = NoneSettled
    /\ UNCHANGED << now, clockSteps, keys, discovered, invocations, mwRunning,
                    mw, pwRunning, sw, retry, retryCalls,
                    mwOther, migrationWorkerInterval, writeMutex, save, stateFile,
                    tempFile, crashed, exited, statusWorkerInterval >>

\* The setInterval of the Status Worker fires: checkOldestRepos up to its
\* first `await needsMigration`
SwTick ==
    /\ EventLoopFree
    /\ sw.pc = "idle"
    /\ statusWorkerInterval
    /\ CheckBatch(keys, repos, now) # << >>
    /\ sw' = [pc |-> "awaiting", batch |-> CheckBatch(keys, repos, now), i |-> 1]
    /\ notified' = 0
    /\ settled' = NoneSettled
    /\ UNCHANGED << now, clockSteps, keys, repos, discovered, invocations,
                    mwRunning, mw, pwRunning, pw, pwRef, retry, retryCalls,
                    mwOther, migrationWorkerInterval, storeVars >>

\* recheckRepoStatus resumes after `await needsMigration`
SwReturn(existsInTarget, sourceLastUpdated, targetLastUpdated) ==
    /\ EventLoopFree
    /\ sw.pc = "awaiting"
    /\ LET n == sw.batch[sw.i]
           needs == needsMigration(existsInTarget, sourceLastUpdated,
                                   targetLastUpdated)
       IN /\ repos' = upsertRepo(repos, keys, n, CheckedFields(needs, now), now)
          /\ pwRef' = Detach(pwRef, n)
    /\ notified' = 1
    /\ settled' = NoneSettled
    /\ IF sw.i < Len(sw.batch)
       THEN /\ sw' = [sw EXCEPT !.i = @ + 1]
            /\ UNCHANGED << isDirty, debounceTimer, pendingResolvers, timerDue >>
       ELSE /\ sw' = SwSaving
            /\ saveState("sw")
    /\ UNCHANGED << now, clockSteps, keys, discovered, invocations, mwRunning,
                    mw, pwRunning, pw, retry, retryCalls,
                    mwOther, migrationWorkerInterval, writeMutex, save, stateFile,
                    tempFile, crashed, exited, statusWorkerInterval >>

\* resolvers.forEach(resolve => resolve()): everyone awaiting saveState()
\* goes on: the Progress Worker and the Status Worker schedule their next
\* run, discovery calls onUpdate().
Resume(resolvers) ==
    /\ pw' = IF "pw" \in resolvers THEN PwScheduled ELSE pw
    /\ sw' = IF "sw" \in resolvers THEN SwIdle ELSE sw
    /\ notified' = IF "disc" \in resolvers THEN 1 ELSE 0

\* Variant: a failed write leaves the saveState() promises unsettled.
SettledOnSuccess(resolvers, flusher, failed) ==
    [resolved |-> IF failed THEN {} ELSE resolvers \cup {flusher},
     rejected |-> IF failed THEN {flusher} ELSE {}]

\* The promises a flush settles at its end: the catch handler resolves the
\* saveState() promises as the then handler does, and rethrows, so only
\* the promise flushPendingSaves returned to its caller rejects.
Settled(resolvers, flusher, failed) ==
    [resolved |-> resolvers \cup (IF failed THEN {} ELSE {flusher}),
     rejected |-> IF failed THEN {flusher} ELSE {}]

\* The process after a flush.  shutdown() goes on to process.exit(0) when the
\* flush resolved.  A rejection reaches nobody: the timer callback drops the
\* promise and shutdown() is a signal handler, so the rejection is unhandled
\* and ends the process or not, depending on the Node.js that runs it.
ExitedAfter(flusher, failed) ==
    IF failed THEN BOOLEAN ELSE {flusher = "shutdown"}

\* The debounce timer fires: flushPendingSaves, the write (doSaveState) and
\* the continuations of everyone awaiting saveState(), with the process
\* alive throughout and the file system accepting the write.
DebounceFires ==
    /\ EventLoopFree
    /\ debounceTimer
    /\ debounceTimer' = FALSE
    /\ timerDue' = None
    /\ isDirty' = FALSE
    /\ stateFile' = IF isDirty /\ writeMutex = "resolved"
                    THEN Document(keys, repos) ELSE stateFile
    /\ pendingResolvers' = {}
    /\ Resume(pendingResolvers)
    /\ settled' = Settled(pendingResolvers, "timer",
                          isDirty /\ writeMutex = "rejected")
    /\ exited' \in ExitedAfter("timer", isDirty /\ writeMutex = "rejected")
    /\ UNCHANGED << now, clockSteps, keys, repos, discovered, invocations,
                    mwRunning, mw, pwRunning, pwRef, retry, retryCalls,
                    mwOther, migrationWorkerInterval, writeMutex, save,
                    tempFile, crashed, statusWorkerInterval >>

\* A file writeFileSync has opened (truncated) and not finished writing.
Partial ==
    [exists |-> TRUE, complete |-> FALSE, keys |-> << >>,
     repos |-> [n \in Names |-> {}]]

\* Variant: the document is written straight over the state file.
BeginWriteInPlace(sf, tf) == [stateFile |-> Partial, tempFile |-> tf]

\* The two files once fs.writeFileSync(tempFile, ...) has begun
BeginWrite(sf, tf) == [stateFile |-> sf, tempFile |-> Partial]

\* The two files once fs.renameSync(tempFile, STATE_FILE) is done
Rename(sf, tf) == [stateFile |-> tf, tempFile |-> NoFile]

\* clearTimeout on the timer of a worker that waits for its next tick
Cleared(w, off) == IF w.pc = "scheduled" THEN off ELSE w

\* clearTimeout(migrationWorkerInterval) as loop w of the Migration Worker
\* sees it: only the timer the handle holds is cleared.
ClearedBy(loop, w) ==
    IF migrationWorkerInterval = loop THEN Cleared(w, MwOff) ELSE w

\* flushPendingSaves called by flusher, and doSaveState up to the point
\* where writeFileSync has opened the temporary file.  With nothing dirty
\* the promises resolve at once and nothing is written.  Once the writeMutex
\* chain has rejected, doSaveState is not called any more and the flush
\* rejects.  pwNow is the Progress Worker as the caller left it.
flushPendingSaves(flusher, pwNow) ==
    /\ debounceTimer' = FALSE
    /\ timerDue' = None
    /\ isDirty' = FALSE
    /\ pendingResolvers' = {}
    /\ IF isDirty /\ writeMutex = "resolved"
       THEN /\ save' = [pc |-> "writing", resolvers |-> pendingResolvers,
                        writers |-> save.writers + 1, flusher |-> flusher]
            /\ stateFile' = BeginWrite(stateFile, tempFile).stateFile
            /\ tempFile' = BeginWrite(stateFile, tempFile).tempFile
            /\ pw' = pwNow
            /\ notified' = 0
            /\ settled' = NoneSettled
            /\ UNCHANGED << sw, exited >>
       ELSE /\ pw' = IF "pw" \in pendingResolvers THEN PwScheduled ELSE pwNow
            /\ sw' = IF "sw" \in pendingResolvers THEN SwIdle ELSE sw
            /\ notified' = IF "disc" \in pendingResolvers THEN 1 ELSE 0
            /\ settled' = Settled(pendingResolvers, flusher, isDirty)
            /\ exited' \in ExitedAfter(flusher, isDirty)
            /\ UNCHANGED << save, stateFile, tempFile >>
    /\ UNCHANGED << now, clockSteps, keys, repos, discovered, invocations,
                    mwRunning, pwRunning, pwRef, retry, retryCalls, writeMutex, crashed >>

\* The debounce timer fires and its callback calls flushPendingSaves.
FlushBegins ==
    /\ EventLoopFree
    /\ debounceTimer
    /\ flushPendingSaves("timer", pw)
    /\ UNCHANGED << mw, mwOther, migrationWorkerInterval,
                    statusWorkerInterval >>

\* SIGINT or SIGTERM: shutdown() up to the end of the synchronous part of
\* flushPendingSaves: the timers of the workers are cleared, then the flush
\* is called.
shutdown ==
    /\ EventLoopFree
    /\ statusWorkerInterval' = FALSE
    /\ mw' = ClearedBy("mw", mw)
    /\ mwOther' = ClearedBy("other", mwOther)
    /\ migrationWorkerInterval' = NoStr
    /\ flushPendingSaves("shutdown", Cleared(pw, PwOff))

\* POST /api/migration-worker/stop: the flag is cleared and a pending
\* timer with it; a tick that is awaiting an invocation is left alone.
StopMigrationWorker ==
    /\ EventLoopFree
    /\ mwRunning
    /\ mwRunning' = FALSE
    /\ mw' = ClearedBy("mw", mw)
    /\ mwOther' = ClearedBy("other", mwOther)
    /\ migrationWorkerInterval' = NoStr
    /\ notified' = 0
    /\ settled' = NoneSettled
    /\ UNCHANGED << now, clockSteps, keys, repos, discovered, invocations,
                    pwRunning, pw, pwRef, sw, retry, retryCalls, storeVars >>

\* POST /api/progress-worker/stop
StopProgressWorker ==
    /\ EventLoopFree
    /\ pwRunning
    /\ pwRunning' = FALSE
    /\ pw' = Cleared(pw, PwOff)
    /\ notified' = 0
    /\ settled' = NoneSettled
    /\ UNCHANGED << now, clockSteps, keys, repos, discovered, invocations,
                    mwRunning, mw, pwRef, sw, retry, retryCalls,
                    mwOther, migrationWorkerInterval, storeVars >>

\* POST /api/status-worker/stop: the flag is cleared and the interval with
\* it; a batch in progress is left alone.
StopStatusWorker ==
    /\ EventLoopFree
    /\ statusWorkerInterval
    /\ statusWorkerInterval' = FALSE
    /\ notified' = 0
    /\ settled' = NoneSettled
    /\ UNCHANGED << now, clockSteps, keys, repos, workerVars, isDirty,
                    debounceTimer, pendingResolvers, writeMutex, save,
                    stateFile, tempFile, crashed, timerDue, exited >>

\* writeFileSync returns: the temporary file holds the whole document
WriteCompletes ==
    /\ ~crashed
    /\ save.pc = "writing"
    /\ save' = [save EXCEPT !.pc = "written"]
    /\ tempFile' = Document(keys, repos)
    /\ notified' = 0
    /\ settled' = NoneSettled
    /\ UNCHANGED << now, clockSteps, keys, repos, workerVars, isDirty,
                    debounceTimer, pendingResolvers, timerDue, writeMutex,
                    stateFile, crashed, exited, statusWorkerInterval >>

\* writeFileSync throws (disk full, permissions): doSaveState rethrows, the
\* writeMutex chain rejects, the catch handler resolves the callers.
WriteFails ==
    /\ ~crashed
    /\ save.pc = "writing"
    /\ save' = SaveIdle
    /\ writeMutex' = "rejected"
    /\ Resume(save.resolvers)
    /\ settled' = Settled(save.resolvers, save.flusher, TRUE)
    /\ exited' \in ExitedAfter(save.flusher, TRUE)
    /\ UNCHANGED << now, clockSteps, keys, repos, discovered, invocations,
                    mwRunning, mw, pwRunning, pwRef, retry, retryCalls,
                    mwOther, migrationWorkerInterval, isDirty,
                    debounceTimer, pendingResolvers, timerDue, stateFile,
                    tempFile, crashed, statusWorkerInterval >>

\* renameSync replaces the state file; the callers' promises resolve.
RenameCompletes ==
    /\ ~crashed
    /\ save.pc = "written"
    /\ save' = SaveIdle
    /\ stateFile' = Rename(stateFile, tempFile).stateFile
    /\ tempFile' = Rename(stateFile, tempFile).tempFile
    /\ Resume(save.resolvers)
    /\ settled' = Settled(save.resolvers, save.flusher, FALSE)
    /\ exited' \in ExitedAfter(save.flusher, FALSE)
    /\ UNCHANGED << now, clockSteps, keys, repos, discovered, invocations,
                    mwRunning, mw, pwRunning, pwRef, retry, retryCalls,
                    mwOther, migrationWorkerInterval, isDirty,
                    debounceTimer, pendingResolvers, timerDue, writeMutex,
                    crashed, statusWorkerInterval >>

\* Half a coalescing window passes.  A pending debounce timer fires when it
\* is due: time does not go past timerDue.
TimePasses ==
    /\ EventLoopFree
    /\ now + DEBOUNCE_MS \div 2 <= MaxHalfWindows * (DEBOUNCE_MS \div 2)
    /\ debounceTimer => now + DEBOUNCE_MS \div 2 <= timerDue
    /\ now' = now + DEBOUNCE_MS \div 2
    /\ notified' = 0
    /\ settled' = NoneSettled
    /\ UNCHANGED << clockSteps, keys, repos, workerVars, storeVars >>

\* The debounce timer fires when it is due.
TimerFires ==
    /\ debounceTimer
    /\ now >= timerDue
    /\ DebounceFires

\* The process is killed (SIGKILL, power loss): nothing runs any more and
\* the files stay as they are.
Crash ==
    /\ ~crashed
    /\ crashed' = TRUE
    /\ notified' = 0
    /\ settled' = NoneSettled
    /\ UNCHANGED << now, clockSteps, keys, repos, workerVars, isDirty,
                    debounceTimer, pendingResolvers, timerDue, writeMutex, save,
                    stateFile, tempFile, exited, statusWorkerInterval >>

\* The process is started again after it was killed or has ended: main()
\* loads the state file into a fresh currentState and starts the servers,
\* the Status Worker and the Progress Worker as at the first start.  The
\* files are as the last process left them.
Restart ==
    /\ crashed \/ exited
    /\ LET loaded == loadState(stateFile, [keys |-> << >>, repos |-> LoadedRepos])
       IN /\ keys' = loaded.keys
          /\ repos' = loaded.repos
    /\ discovered' = FALSE
    /\ mwRunning' = FALSE
    /\ mw' = MwOff
    /\ pwRunning' = TRUE
    /\ pw' = PwScheduled
    /\ pwRef' = AllLive
    /\ sw' = SwIdle
    /\ retry' = NoRetry
    /\ retryCalls' = << >>
    /\ mwOther' = MwOff
    /\ migrationWorkerInterval' = NoStr
    /\ isDirty' = TRUE
    /\ debounceTimer' = TRUE
    /\ timerDue' = now + DEBOUNCE_MS
    /\ pendingResolvers' = {"init"}
    /\ writeMutex' = "resolved"
    /\ save' = SaveIdle
    /\ crashed' = FALSE
    /\ exited' = FALSE
    /\ statusWorkerInterval' = TRUE
    /\ notified' = 0
    /\ settled' = NoneSettled
    /\ UNCHANGED << now, clockSteps, invocations, stateFile, tempFile >>

\* The workers, discovery and the retry endpoint at one instant of the clock.
Next ==
    \/ Discover
    \/ StartMigrationWorker
    \/ MwTick
    \/ \E o \in Outcomes : MwReturn(o)
    \/ \E n \in Names : RetryStart(n)
    \/ \E n \in Names, o \in Outcomes : RetryReturn(n, o)
    \/ PwTick
    \/ \E res \in Phases \cup {NoStr} : PwReturn(res)
    \/ SwTick
    \/ \E e \in BOOLEAN, s \in PushTimes, t \in PushTimes : SwReturn(e, s, t)
    \/ DebounceFires

Spec == Init /\ [][Next]_vars

\* Queueing by the retry endpoint and polling by the Progress Worker while
\* the clock advances.
NextTimed ==
    \/ AdvanceClock
    \/ Discover
    \/ \E n \in Names : RetryStart(n)
    \/ \E n \in Names, o \in Outcomes : RetryReturn(n, o)
    \/ PwTick
    \/ \E res \in Phases \cup {NoStr} : PwReturn(res)
    \/ DebounceFires

SpecTimed == Init /\ [][NextTimed]_vars

\* The state document and its file: discovery, the Status Worker and the retry
\* endpoint change the document, the write goes step by step and the process
\* can be killed at any point.
NextStore ==
    \/ Discover
    \/ \E n \in Names : RetryStart(n)
    \/ \E n \in Names, o \in Outcomes : RetryReturn(n, o)
    \/ SwTick
    \/ \E e \in BOOLEAN, s \in PushTimes, t \in PushTimes : SwReturn(e, s, t)
    \/ FlushBegins
    \/ WriteCompletes
    \/ WriteFails
    \/ RenameCompletes
    \/ shutdown
    \/ Crash
    \/ Restart

SpecStore == Init /\ [][NextStore]_vars

\* The Status Worker checking a record the retry endpoint moves.
NextCheck ==
    \/ Discover
    \/ \E n \in Names : RetryStart(n)
    \/ \E n \in Names, o \in Outcomes : RetryReturn(n, o)
    \/ SwTick
    \/ \E e \in BOOLEAN, s \in PushTimes, t \in PushTimes : SwReturn(e, s, t)
    \/ DebounceFires

SpecCheck == Init /\ [][NextCheck]_vars

\* The Status Worker choosing its batches among the records of a loaded
\* state file and checking them, every check finding the target absent or
\* up to date.
NextBatch ==
    \/ SwTick
    \/ \E e \in BOOLEAN : SwReturn(e, 1000, 1000)
    \/ DebounceFires

SpecBatch == InitBatch /\ [][NextBatch]_vars

\* The Migration Worker and the retry endpoint queueing the discovered
\* record beside the migrations of the loaded state file.
NextQueue ==
    \/ Discover
    \/ StartMigrationWorker
    \/ MwTick
    \/ \E o \in Outcomes : MwReturn(o)
    \/ \E n \in Names : RetryStart(n)
    \/ \E n \in Names, o \in Outcomes : RetryReturn(n, o)
    \/ DebounceFires

SpecQueue == Init /\ [][NextQueue]_vars

\* The Status Worker checking the records of a loaded state file until the
\* operator stops it.
NextStop ==
    \/ SwTick
    \/ \E e \in BOOLEAN : SwReturn(e, 1000, 1000)
    \/ StopStatusWorker
    \/ DebounceFires

SpecStop == InitBatch /\ [][NextStop]_vars

\* The Progress Worker polling, tick after tick, the queued records of a
\* loaded state file while time passes.
NextPolls ==
    \/ AdvanceClock
    \/ PwTick
    \/ \E res \in Phases \cup {NoStr} : PwReturn(res)
    \/ DebounceFires

SpecPolls == InitPolls /\ [][NextPolls]_vars

\* The operator starting and stopping the Migration Worker while it queues
\* the discovered repository, which the Status Worker has found unsynced.
NextControl ==
    \/ Discover
    \/ SwTick
    \/ \E e \in BOOLEAN : SwReturn(e, 1000, 1000)
    \/ StartMigrationWorker
    \/ StopMigrationWorker
    \/ MwTick
    \/ \E o \in Outcomes : MwReturn(o)
    \/ MwOtherTick
    \/ \E o \in Outcomes : MwOtherReturn(o)
    \/ DebounceFires

SpecControl == Init /\ [][NextControl]_vars

\* Discovery, the Status Worker and the retry endpoint with the write going
\* step by step and the operator ending the process with a signal; nobody
\* kills the process.
NextSave ==
    \/ Discover
    \/ \E n \in Names : RetryStart(n)
    \/ \E n \in Names, o \in Outcomes : RetryReturn(n, o)
    \/ SwTick
    \/ \E e \in BOOLEAN : SwReturn(e, 1000, 1000)
    \/ FlushBegins
    \/ WriteCompletes
    \/ WriteFails
    \/ RenameCompletes
    \/ shutdown

\* A pending debounce timer fires, and writeFileSync and renameSync return
\* or throw.
FairSave ==
    /\ WF_vars(FlushBegins)
    /\ WF_vars(WriteCompletes \/ WriteFails)
    /\ WF_vars(RenameCompletes)

SpecSave == Init /\ [][NextSave]_vars /\ FairSave

\* What getMigrationStatus can return after k steps of the clock: the tool
\* knows the migrations until the clock first moves, then they are gone and
\* every query comes back empty (null).
Reported(k) == IF k = 0 THEN Phases \cup {NoStr} ELSE {NoStr}

\* The Progress Worker polling migrations that disappear from the tool.
NextLost ==
    \/ AdvanceClock
    \/ PwTick
    \/ \E res \in Reported(clockSteps) : PwReturn(res)
    \/ DebounceFires

\* The timers fire (the clock, the tick's setTimeout, the debounce timer) and
\* every awaited query returns.
FairLost ==
    /\ WF_vars(AdvanceClock)
    /\ WF_vars(PwTick)
    /\ WF_vars(\E res \in Reported(clockSteps) : PwReturn(res))
    /\ WF_vars(DebounceFires)

SpecLost == InitPolls /\ [][NextLost]_vars /\ FairLost

\* The Progress Worker polling a record the retry endpoint queues, with
\* every phase the tool can report.
NextPoll ==
    \/ Discover
    \/ \E n \in Names : RetryStart(n)
    \/ \E n \in Names, o \in Outcomes : RetryReturn(n, o)
    \/ PwTick
    \/ \E res \in AllPhases \cup {NoStr} : PwReturn(res)
    \/ DebounceFires

SpecPoll == Init /\ [][NextPoll]_vars

\* The debounce timer of saveState on a clock of half coalescing windows:
\* discovery, the Status Worker and the Progress Worker request saves, the
\* retry endpoint changes records without requesting one.
NextDebounce ==
    \/ TimePasses
    \/ Discover
    \/ \E n \in Names : RetryStart(n)
    \/ \E n \in Names, o \in Outcomes : RetryReturn(n, o)
    \/ SwTick
    \/ \E e \in BOOLEAN, s \in PushTimes, t \in PushTimes : SwReturn(e, s, t)
    \/ PwTick
    \/ \E res \in Phases \cup {NoStr} : PwReturn(res)
    \/ TimerFires

SpecDebounce == Init /\ [][NextDebounce]_vars

----------------------------------------------------------------------------
(* Properties *)

\* The statuses of a record that is queued or migrating.
ActiveStatuses == {"queued", "syncing", "exporting", "exported", "importing"}

\* A step that ends a tick of the Migration Worker: the next tick is scheduled.
MwTickEnds ==
    /\ StartMigrationWorker \/ MwTick \/ \E o \in Outcomes : MwReturn(o)
    /\ mw'.pc = "scheduled"

\* An invocation attempt for record n comes back with outcome o.
Attempt(n, o) == RetryReturn(n, o) \/ (MwReturn(o) /\ mw.name = n)

\* The error text an unsuccessful attempt captures (an empty text is no text).
CapturedText(o) ==
    CASE o.kind = "noid" -> NoIdMessage
      [] o.text = "" -> NoStr
      [] OTHER -> o.text

\* The Progress Worker's poll of record n comes back with "not found".
PollNotFound(n) == PwReturn(NoStr) /\ pw.batch[pw.i] = n

\* C1: at the end of every tick of the Migration Worker the number of
\* records that are queued or migrating is at most the ceiling of 10.
C1_CeilingAtTickEnd ==
    [][MwTickEnds => InProgressCount(keys', repos') <= MAX_CONCURRENT_MIGRATIONS]_vars

\* C2: a poll of a queued or migrating record that finds no migration more
\* than the grace period after the record's startedAt sets the record to
\* 'unknown' with the explanatory message, and notifies.
C2_LostAfterGrace ==
    [][\A n \in Names :
          (/\ PollNotFound(n)
           /\ repos[n].status \in ActiveStatuses
           /\ repos[n].startedAt # None
           /\ now - repos[n].startedAt > GRACE_MS)
          => /\ repos'[n].status = "unknown"
             /\ repos'[n].errorMessage = LostMessage
             /\ notified' >= 1]_vars

\* A record declared lost more than the grace period after it started.
C2_Witness ==
    \E n \in Names :
        /\ repos[n].status = "unknown"
        /\ repos[n].errorMessage = LostMessage
        /\ repos[n].startedAt # None
        /\ repos[n].lastUpdate - repos[n].startedAt > GRACE_MS

\* C3: a poll of a queued or migrating record that finds no migration at
\* most the grace period (boundary included) after the record's startedAt
\* leaves the record as it is and notifies nobody.
C3_UnchangedWithinGrace ==
    [][\A n \in Names :
          (/\ PollNotFound(n)
           /\ repos[n].status \in ActiveStatuses
           /\ repos[n].startedAt # None
           /\ now - repos[n].startedAt <= GRACE_MS)
          => /\ repos'[n] = repos[n]
             /\ notified' = 0]_vars

\* C4: a check that reports the target repository as not existing never sets
\* the record to 'synced': no step that leaves the record under check
\* 'synced' is the return of such a check.
C4_NeverSyncedWithoutTarget ==
    [][\A s \in PushTimes, t \in PushTimes :
          (sw.pc = "awaiting" /\ repos'[sw.batch[sw.i]].status = "synced")
          => ~SwReturn(FALSE, s, t)]_vars

\* The Status Worker has marked a record as needing migration.
C4_Witness ==
    \E n \in Names :
        /\ repos[n].status = "needs_migration"
        /\ repos[n].lastChecked # None

\* C5: once endedAt is set, no step changes endedAt or elapsedSeconds.
C5_TimerStopsOnce ==
    [][\A n \in Names :
          repos[n].endedAt # None
          => /\ repos'[n].endedAt = repos[n].endedAt
             /\ repos'[n].elapsedSeconds = repos[n].elapsedSeconds]_vars

\* A record that failed again, later, after its timer had been stopped.
C5_Witness ==
    \E n \in Names :
        /\ repos[n].status = "failed"
        /\ repos[n].elapsedSeconds # None
        /\ repos[n].lastUpdate > repos[n].endedAt

C7_StartBeforeEnd ==
    \A n \in Names :
        (repos[n].startedAt # None /\ repos[n].endedAt # None)
        => repos[n].startedAt <= repos[n].endedAt

\* C8: after an invocation attempt the record is queued with a migrationId
\* or failed with the captured error text as errorMessage, and a failed
\* attempt on a record without migrationId leaves it without one.
C8_AttemptOutcome ==
    [][\A n \in Names, o \in Outcomes :
          Attempt(n, o)
          => /\ \/ repos'[n].status = "queued" /\ repos'[n].migrationId # None
                \/ /\ repos'[n].status = "failed"
                   /\ repos'[n].errorMessage = CapturedText(o)
             /\ (o.kind # "ok" /\ repos[n].migrationId = None)
                => repos'[n].migrationId = None]_vars

C10_FileOldOrNew ==
    [][/\ stateFile'.exists
       /\ stateFile'.complete
       /\ (stateFile' = stateFile \/ stateFile' = Document(keys', repos'))]_vars

\* The process was killed while the temporary file was half written and the
\* state file still held the previous document.
C10_Witness ==
    /\ crashed
    /\ save.pc = "writing"
    /\ ~tempFile.complete
    /\ stateFile.complete
    /\ stateFile # Document(keys, repos)

\* C11: writes to the state file are executed one at a time: a write starts
\* only when no write is in progress, so at most one is ever in progress,
\* whatever saveState() and flushPendingSaves() calls the workers make.
C11_WritesOneAtATime ==
    [][save'.writers > save.writers =>
           /\ save.pc = "idle"
           /\ save.writers = 0
           /\ save'.writers = 1]_vars

\* A write for a caller of saveState() is in progress after an earlier
\* write, made for two callers, has put record "a" into the state file.
C11_Witness ==
    /\ save.pc = "writing"
    /\ save.writers = 1
    /\ save.resolvers # {}
    /\ SeqHas(stateFile.keys, "a")

\* C12: a check of the Status Worker whose save was requested more than one
\* coalescing window ago is in the state file, whatever saves were
\* requested since (the worker checks one record and requests the save in
\* the step that records the check).
C12_WrittenWithinWindow ==
    \A n \in Names :
        (/\ repos[n].lastChecked # None
         /\ Parse(stateFile.repos[n]).lastChecked # repos[n].lastChecked)
        => now - repos[n].lastChecked <= DEBOUNCE_MS

\* C13: when the promise returned by flushPendingSaves resolves (to the
\* debounce timer's callback or to shutdown), the state file holds the
\* current document: every change made before the call has been written.
C13_FlushResolvesAfterWrite ==
    [][settled'.resolved \cap {"timer", "shutdown"} # {}
           => stateFile' = Document(keys', repos')]_vars

\* C14: a failing write leaves the records as they are, and every flush
\* that finds a save requested begins a write of the current document,
\* after a failed write as before it.
C14_WriteAttemptedAfterFailure ==
    [][/\ (save.pc = "writing" /\ save'.pc = "idle")
            => (repos' = repos /\ keys' = keys)
       /\ (isDirty /\ ~isDirty')
            => (save'.pc = "writing" /\ tempFile' = Partial)]_vars

\* C15: when a write fails, the promise of every caller awaiting saveState()
\* and the promise of the caller of flushPendingSaves reject, and the
\* workers that requested the save have their next run scheduled in a
\* process that is still alive.
C15_FailureReachesCallers ==
    [][(save.pc = "writing" /\ save'.pc = "idle")
           => /\ save.resolvers \cup {save.flusher} \subseteq settled'.rejected
              /\ "pw" \in save.resolvers => pw' = PwScheduled
              /\ "sw" \in save.resolvers => sw' = SwIdle
              /\ ~exited']_vars

C17_PhaseStored ==
    [][\A res \in AllPhases :
          (pw.pc = "awaiting" /\ PwReturn(res))
          => LET n == pw.batch[pw.i]
                 statusFor ==
                     CASE Lower(res) \in {"exporting", "exported", "importing"}
                              -> {"syncing", "exporting", "exported",
                                  "importing"}
                       [] Lower(res) = "imported" -> {"synced", "imported"}
                       [] Lower(res) = "failed" -> {"failed"}
                       [] Lower(res) \in {"pending", "queued"} -> {"queued"}
                       [] OTHER -> Statuses
             IN /\ repos'[n].status \in statusFor
                /\ Lower(res) \in {"imported", "failed"}
                       => repos'[n].endedAt # None]_vars

\* C18: a record leaves the status failed only in a step of the retry
\* endpoint (the request or its return from the tool): no tick of the Status Worker, the Migration Worker or the
\* Progress Worker changes the status of a failed record.
C18_FailedLeavesByRetryOnly ==
    [][\A n \in Names :
          (repos[n].status = "failed" /\ repos'[n].status # "failed")
          => \/ RetryStart(n)
             \/ \E o \in Outcomes : RetryReturn(n, o)]_vars

\* C19: the step in which a retry request starts its remote calls leaves
\* the record needs-sync and notified, and the calls it starts are the
\* deletion of the target repository and then the migration of the record.
C19_RetryOrder ==
    [][\A n \in Names :
          (retry[n] = None /\ retry'[n] # None)
          => /\ repos'[n].status \in {"unsynced", "needs_migration"}
             /\ notified' >= 1
             /\ retryCalls' = << "delete-repo", "migrate-repo" >>]_vars

\* C20: a check of the Status Worker leaves the record needs-sync exactly
\* when the target is absent, or a last-push time is unavailable, or the
\* source was pushed strictly later than the target; otherwise, equal
\* times included, it leaves it in-sync.  Stated for every combination of
\* what the check found: no return of the check leaves the record in
\* another status than that decision.
C20_ReconciliationDecision ==
    [][(sw.pc = "awaiting" /\ sw' # sw)
           => \A e \in BOOLEAN, s \in PushTimes, t \in PushTimes :
                  LET decision == IF ~e \/ s = None \/ t = None \/ s > t
                                  THEN "needs_migration" ELSE "synced"
                  IN repos'[sw.batch[sw.i]].status # decision
                         => ~SwReturn(e, s, t)]_vars

\* The Status Worker has decided that a record which was queued for
\* migration before is in sync with its target.
C20_Witness ==
    \E n \in Names :
        /\ repos[n].status = "synced"
        /\ repos[n].lastChecked # None
        /\ repos[n].migrationId # None
        /\ sw.pc = "saving"

\* C21: the batch a tick of the Status Worker takes is the set of all
\* unknown records when there is one; otherwise it holds STATUS_BATCH_SIZE
\* records (all of them when fewer qualify) among those that are not
\* queued or migrating and were never checked or were checked more than the
\* minimum age ago, and no record left out was checked earlier than a
\* record taken (a record never checked counts as the earliest).
C21_BatchChosen ==
    [][(sw.pc = "idle" /\ sw'.pc = "awaiting")
           => LET all == {keys[i] : i \in 1..Len(keys)}
                  batch == {sw'.batch[i] : i \in 1..Len(sw'.batch)}
                  unknown == {n \in all : RepoAt(repos, n).status = "unknown"}
                  due == {n \in all :
                             LET r == RepoAt(repos, n)
                             IN /\ r.status \notin
                                       {"unknown", "queued", "syncing",
                                        "exporting", "exported", "importing"}
                                /\ (r.lastChecked = None
                                    \/ now - r.lastChecked > MinAgeMs)}
                  time(n) == IF RepoAt(repos, n).lastChecked = None THEN 0
                             ELSE RepoAt(repos, n).lastChecked
              IN /\ Cardinality(batch) = Len(sw'.batch)
                 /\ IF unknown # {}
                    THEN batch = unknown
                    ELSE /\ batch \subseteq due
                         /\ Cardinality(batch) =
                                IF Cardinality(due) < STATUS_BATCH_SIZE
                                THEN Cardinality(due) ELSE STATUS_BATCH_SIZE
                         /\ \A b \in batch, n \in due \ batch :
                                time(b) <= time(n)]_vars

\* The Status Worker has taken a full batch and left out a record that
\* qualifies but was checked later than those taken.
C21_Witness ==
    /\ sw.pc = "awaiting"
    /\ sw.i = 1
    /\ Len(sw.batch) = STATUS_BATCH_SIZE
    /\ \E n \in {keys[i] : i \in 1..Len(keys)} :
           /\ \A i \in 1..Len(sw.batch) : sw.batch[i] # n
           /\ NeedsCheck(RepoAt(repos, n), now)
           /\ RepoAt(repos, n).lastChecked = 50000
    /\ \E i \in 1..Len(sw.batch) : RepoAt(repos, sw.batch[i]).lastChecked = None

\* C22: a step that ends a tick of a worker whose running flag is set (the
\* interval, for the Status Worker) leaves the worker with its next tick
\* scheduled and the process running, whether the tick's remote calls and
\* its save succeeded or failed.
C22_TickEndsScheduled ==
    [][/\ (mw.pc = "awaiting" /\ mw'.pc # "awaiting" /\ mwRunning')
           => (mw' = MwScheduled /\ ~exited')
       /\ (pw.pc \in {"awaiting", "saving"}
              /\ pw'.pc \notin {"awaiting", "saving"} /\ pwRunning')
           => (pw' = PwScheduled /\ ~exited')
       /\ (sw.pc \in {"awaiting", "saving"}
              /\ sw'.pc \notin {"awaiting", "saving"} /\ statusWorkerInterval')
           => (sw' = SwIdle /\ ~exited')]_vars

\* C23: a flush called while the records in memory differ from the state
\* file, and while no earlier write has failed, begins a write; the
\* document it writes is the one in memory, which holds every upsertRepo
\* and setStatus made so far, whether or not saveState was called since.
C23_FlushWritesMutations ==
    [][(/\ writeMutex = "resolved"
        /\ stateFile # Document(keys, repos)
        /\ (shutdown \/ FlushBegins))
           => (save'.pc = "writing" /\ tempFile' = Partial)]_vars

\* C24: discovery leaves the keys and the records it finds in the mapping
\* as they are, and gives every fetched repository that had no record a
\* new record at the end of the mapping, of status unknown and with no
\* migration id and no timestamp.
C24_DiscoveryAddsNew ==
    [][(~discovered /\ discovered')
           => /\ SubSeq(keys', 1, Len(keys)) = keys
              /\ \A i \in 1..Len(FetchOrder) : SeqHas(keys', FetchOrder[i])
              /\ \A n \in Names :
                    IF SeqHas(keys, n) THEN repos'[n] = repos[n]
                    ELSE SeqHas(keys', n)
                            => /\ repos'[n].status = "unknown"
                               /\ repos'[n].migrationId = None
                               /\ repos'[n].queuedAt = None
                               /\ repos'[n].startedAt = None
                               /\ repos'[n].endedAt = None
                               /\ repos'[n].lastChecked = None
                               /\ repos'[n].lastPolledAt = None]_vars

\* Discovery has run in a process that found record a, checked and in
\* sync, in its state file, and nothing has changed the record since.
C24_Witness ==
    /\ discovered
    /\ pendingResolvers = {"init", "disc"}
    /\ repos["a"].status = "synced"
    /\ repos["a"].lastChecked # None
    /\ keys[Len(keys)] = "a"
    /\ retry["a"] = None

\* C25: when a check of the Status Worker returns for a record that is
\* queued or migrating at that moment, the step leaves the record's status
\* as it is.
C25_CheckSparesQueued ==
    [][(sw.pc = "awaiting" /\ sw' # sw)
           => LET n == sw.batch[sw.i]
              IN RepoAt(repos, n).status \in ActiveStatuses
                    => RepoAt(repos', n).status = RepoAt(repos, n).status]_vars

\* C26: when a poll of the Progress Worker returns for a record whose
\* migration id is no longer the one the poll was made for, the step leaves
\* the record as it is.
C26_PhaseForCurrentId ==
    [][(pw.pc = "awaiting" /\ pw' # pw)
           => LET n == pw.batch[pw.i]
              IN RepoAt(repos, n).migrationId # pw.id
                    => RepoAt(repos', n) = RepoAt(repos, n)]_vars

\* C27: when a poll returns the phase IN_PROGRESS, which mapGitHubStatus
\* does not know, the record is treated as the record of a migration that
\* was not found: left as it is within the grace period, made unknown
\* (lost) after it; it never becomes failed and never holds the phase.
C27_UnrecognizedAsNotFound ==
    [][(pw.pc = "awaiting" /\ pw' # pw /\ pwRef[pw.batch[pw.i]].live)
           => LET n == pw.batch[pw.i]
              IN PwReturn("IN_PROGRESS")
                    => /\ IF OverGrace(RepoAt(repos, n), now)
                          THEN RepoAt(repos', n).status = "unknown"
                          ELSE RepoAt(repos', n) = RepoAt(repos, n)
                       /\ RepoAt(repos', n).status
                             \notin {"failed", "IN_PROGRESS", "in_progress"}]_vars

\* C28: when the migration-status call of a poll fails (getMigrationStatus
\* returns null), the record polled is left as it is, whatever its age, and
\* a record that was among those a tick polls still is.
C28_FailedCallChangesNothing ==
    [][(pw.pc = "awaiting" /\ pw' # pw /\ pwRef[pw.batch[pw.i]].live)
           => LET n == pw.batch[pw.i]
              IN PwReturn(NoStr)
                    => /\ RepoAt(repos', n) = RepoAt(repos, n)
                       /\ SeqHas(listIncomplete(keys, repos), n)
                             => SeqHas(listIncomplete(keys', repos'), n)]_vars

\* C29: a retry request for a record whose status is not failed leaves the
\* record's status as it is and invokes no migration.
C29_RetryOnlyFailed ==
    [][\A n \in Names :
          (/\ retry[n] = None
           /\ retry'[n] # None
           /\ RepoAt(repos, n).status # "failed")
              => /\ RepoAt(repos', n).status = RepoAt(repos, n).status
                 /\ invocations' = invocations]_vars

\* C30: when a poll returns a phase that maps to the status the record has,
\* the step leaves the record's status, lastUpdate, startedAt, endedAt and
\* errorMessage as they are and fires no notification.
C30_SamePhaseNoWrite ==
    [][(pw.pc = "awaiting" /\ pw' # pw)
           => LET n == pw.batch[pw.i]
                  old == RepoAt(repos, n)
                  new == RepoAt(repos', n)
              IN \A res \in AllPhases :
                    (mapGitHubStatus(res) = old.status /\ PwReturn(res))
                       => /\ new.status = old.status
                          /\ new.lastUpdate = old.lastUpdate
                          /\ new.startedAt = old.startedAt
                          /\ new.endedAt = old.endedAt
                          /\ new.errorMessage = old.errorMessage
                          /\ notified' = 0]_vars

\* C31: the records a tick of the Progress Worker enumerates are queued or
\* migrating at that moment, and no step of the tick, from the enumeration
\* to the last poll, changes a record that is not among them.
C31_TickTouchesEnumerated ==
    [][((pw.pc = "scheduled" /\ pw' # pw) \/ (pw.pc = "awaiting" /\ pw' # pw))
           => LET enumerated == IF pw.pc = "scheduled"
                                THEN listIncomplete(keys, repos) ELSE pw.batch
              IN /\ pw.pc = "scheduled"
                       => \A i \in 1..Len(enumerated) :
                             RepoAt(repos, enumerated[i]).status
                                \in ActiveStatuses
                 /\ pw'.pc = "awaiting"
                       => (pw'.batch = enumerated /\ pw'.i <= Len(enumerated))
                 /\ \A k \in 1..Len(keys) :
                       RepoAt(repos', keys[k]) # RepoAt(repos, keys[k])
                          => \E i \in 1..Len(enumerated) :
                                enumerated[i] = keys[k]]_vars

\* A tick has polled two of three records and changed the first, and has
\* passed over the record between them, which needs a migration.
C31_Witness ==
    /\ keys = PollOrder
    /\ pw.pc = "saving"
    /\ repos["p1"].status = "failed"
    /\ repos["p1"].lastPolledAt # None
    /\ repos["p2"] = [SettledRepo("needs_migration") EXCEPT !.name = "p2"]
    /\ repos["p3"].status = "queued"
    /\ repos["p3"].lastPolledAt # None

\* C32: in a state where the number of queued or migrating records is at
\* the ceiling, a tick of the Migration Worker goes straight to scheduling
\* the next tick, and the tick the start request runs leaves the records
\* and the number of invocations as they are and the process running.
C32_BacksOffAtCeiling ==
    [][Cardinality({i \in 1..Len(keys) :
                       RepoAt(repos, keys[i]).status \in ActiveStatuses})
          >= MAX_CONCURRENT_MIGRATIONS
           => /\ MwTickBody(repos, keys, invocations + 1) = MwScheduled
              /\ (mw.pc # "awaiting" /\ mw' # mw)
                    => /\ mw' = MwScheduled
                       /\ repos' = repos
                       /\ invocations' = invocations
                       /\ ~exited' /\ ~crashed']_vars

\* The Migration Worker was started with ten migrations under way and
\* waits for its next tick, no migration invoked.
C32_Witness ==
    /\ mwRunning
    /\ mw = MwScheduled
    /\ invocations = 0
    /\ Len(keys) >= MAX_CONCURRENT_MIGRATIONS
    /\ \A i \in 1..MAX_CONCURRENT_MIGRATIONS :
           RepoAt(repos, keys[i]).status \in ActiveStatuses

\* C33: once a worker is stopped, a record operation of its batch that
\* returns is the last of the batch: the worker does not go on to await the
\* remote call of another record.
C33_StopEndsBatch ==
    [][/\ (~statusWorkerInterval /\ sw.pc = "awaiting" /\ sw' # sw)
           => sw'.pc # "awaiting"
       /\ (~pwRunning /\ pw.pc = "awaiting" /\ pw' # pw)
           => pw'.pc # "awaiting"
       /\ (~mwRunning /\ mw.pc = "awaiting" /\ mw' # mw)
           => mw'.pc # "awaiting"]_vars

\* C34: when the remote call for a record of a batch fails (the check of the
\* target repository in the Status Worker, the status call in the Progress
\* Worker), the record is left as it is and the worker goes on to the next
\* record of the batch.
C34_FailureSkipsRecord ==
    [][/\ (sw.pc = "awaiting" /\ sw' # sw)
           => (SwReturn(FALSE, 1000, 1000)
                 => /\ RepoAt(repos', sw.batch[sw.i])
                          = RepoAt(repos, sw.batch[sw.i])
                    /\ sw.i < Len(sw.batch)
                          => sw' = [sw EXCEPT !.i = @ + 1])
       /\ (pw.pc = "awaiting" /\ pw' # pw)
           => (PwReturn(NoStr)
                 => /\ RepoAt(repos', pw.batch[pw.i])
                          = RepoAt(repos, pw.batch[pw.i])
                    /\ pw.i < Len(pw.batch)
                          => (pw'.pc = "awaiting" /\ pw'.i > pw.i))]_vars

\* C35: a step that changes a field of an existing record leaves the
\* record's lastUpdate at the time of the step.
C35_ChangeStampsLastUpdate ==
    [][\A k \in 1..Len(keys) :
          RepoAt(repos', keys[k]) # RepoAt(repos, keys[k])
             => RepoAt(repos', keys[k]).lastUpdate = now]_vars

C37_RecordsStay ==
    [][/\ ~(crashed \/ exited) =>
              /\ Len(keys') >= Len(keys)
              /\ SubSeq(keys', 1, Len(keys)) = keys
       /\ \A k \in 1..Len(keys) : RepoAt(repos, keys[k]).name = keys[k]
       /\ \A k \in 1..Len(keys') : RepoAt(repos', keys'[k]).name = keys'[k]
      ]_vars

\* A discovered record, appended behind the loaded ones, retried and failed.
C37_Witness ==
    /\ discovered
    /\ Has("a")
    /\ Len(keys) > 1
    /\ keys[Len(keys)] = "a"
    /\ repos["a"].name = "a"
    /\ repos["a"].status = "failed"

\* C38: with the Progress Worker's ticks scheduled fairly, a record that is
\* queued or migrating once its migration has disappeared from the tool
\* (every query from then on finds nothing) is eventually declared lost:
\* status 'unknown' with the explanatory message.
C38_LostEventually ==
    \A n \in PollNames :
        (clockSteps >= 1 /\ repos[n].status \in ActiveStatuses)
            ~> (repos[n].status = "unknown" /\ repos[n].errorMessage = LostMessage)

\* C39: whatever start and stop requests are made, at most one tick loop of
\* the Migration Worker is active (executing, awaiting its invocation, or
\* scheduled) at any time.
C39_OneTickLoop == ~(mw.pc # "off" /\ mwOther.pc # "off")

\* C40: whenever somebody awaits a saveState() promise a debounce timer is
\* pending; and with the timer firing and the write returning or throwing,
\* every awaited saveState() promise is eventually resolved, after a write
\* that succeeded or one that failed.
C40_SaveResolves ==
    /\ [](pendingResolvers # {} => debounceTimer)
    /\ \A who \in {"init", "disc", "sw", "pw"} :
           (who \in pendingResolvers) ~> (who \in settled.resolved)

\* The Status Worker's save promise resolved by a flush whose write failed.
C40_Witness ==
    /\ "sw" \in settled.resolved
    /\ settled.rejected # {}
    /\ save = SaveIdle
    /\ sw = SwIdle

====
